---- MODULE Spec2Model ----
(***************************************************************************)
(* Git++ (gpp): the version graph with per-node push permissions, its      *)
(* graph storage (JsonStorage, FileStorage), the git backend and the push  *)
(* manager, as state machines translated from the Rust sources.            *)
(***************************************************************************)
EXTENDS Integers, Sequences, FiniteSets, TLC

\* ------------------------------------------------------------------ bounds
\* How many commands run in one behaviour.
MaxOps == 3
\* Each command creates at most one commit object, so at most one node id.
MaxNodes == MaxOps
\* How many failures the environment injects in one behaviour.
MaxFaults == 1
\* How many nodes a graph file read from disk holds when the push walk is
\* followed step by step.
MaxWalkNodes == 3

\* ------------------------------------------------------------ value domains
NodeIds == 1..MaxNodes
None == 0
RemoteNames == {"origin", "secret"}
Urls == {"", "u"}
Messages == {"m"}

\* types.rs RemoteRef: identity is (name, url); specs take no part in Eq/Hash
\* and are empty on every path of the core, so a RemoteRef is its identity.
RemoteRef(name, url) == [name |-> name, url |-> url]
RemoteRefs == {RemoteRef(n, u) : n \in RemoteNames, u \in Urls}

\* types.rs Node.  author is the constant the CLI passes; tags and metadata
\* are created empty and never written by the core.
MkNode(id, parents, children, remotes, message, created_at) ==
    [id |-> id, parents |-> parents, children |-> children,
     remotes |-> remotes, message |-> message, created_at |-> created_at]

\* HashMap<NodeId, Node>: a function on the stored ids.
EmptyMap == [i \in {} |-> None]
MapInsert(map, key, value) ==
    [i \in (DOMAIN map) \cup {key} |-> IF i = key THEN value ELSE map[i]]

\* ----------------------------------------------------------- serialization
\* serde_json writes a HashSet as an array and a HashMap as an object; reading
\* builds the sets and the map again (a repeated key keeps the last entry).
RECURSIVE SetToSeq(_)
SetToSeq(S) ==
    IF S = {} THEN <<>>
    ELSE LET x == CHOOSE y \in S : TRUE IN <<x>> \o SetToSeq(S \ {x})

SeqToSet(s) == {s[i] : i \in DOMAIN s}

SerializeNode(n) ==
    [id |-> n.id, parents |-> n.parents, children |-> SetToSeq(n.children),
     remotes |-> SetToSeq(n.remotes), message |-> n.message,
     created_at |-> n.created_at]

DeserializeNode(j) ==
    MkNode(j.id, j.parents, SeqToSet(j.children), SeqToSet(j.remotes),
           j.message, j.created_at)

RECURSIVE SerializeEntries(_, _)
SerializeEntries(map, keys) ==
    IF keys = {} THEN <<>>
    ELSE LET k == CHOOSE y \in keys : \A z \in keys : y <= z
         IN <<[key |-> k, value |-> SerializeNode(map[k])]>>
            \o SerializeEntries(map, keys \ {k})

\* serde_json::to_writer_pretty(&map)
Serialize(map) == SerializeEntries(map, DOMAIN map)

RECURSIVE Deserialize(_)
\* serde_json::from_reader::<HashMap<NodeId, Node>>
Deserialize(entries) ==
    IF entries = <<>> THEN EmptyMap
    ELSE LET n == Len(entries)
         IN MapInsert(Deserialize(SubSeq(entries, 1, n - 1)),
                      entries[n].key, DeserializeNode(entries[n].value))

\* A file: absent, or its content.  complete = FALSE is a file whose text
\* stops before the end of the document (created and not, or only partly,
\* written): no reader parses it, so how much of the text is there is left out.
NoFile == [exists |-> FALSE, complete |-> FALSE, entries |-> <<>>]
FileOf(entries) == [exists |-> TRUE, complete |-> TRUE, entries |-> entries]
PartialFile == [exists |-> TRUE, complete |-> FALSE, entries |-> <<>>]
Readable(f) == f.exists /\ f.complete


\* ------------------------------------------------------------ graph storage
\* A storage object and the files it owns:
\*   impl   which GraphStorage implementation it is
\*   nodes  JsonStorage.nodes, the in-memory map (FileStorage keeps none)
\*   db     the graph file (JsonStorage.db_path, FileStorage graph.json)
\*   tmp    FileStorage's graph.tmp
\*   tx     FileStorage's graph.tx
MkStorage(impl, nodes, db, tmp, tx) ==
    [impl |-> impl, nodes |-> nodes, db |-> db, tmp |-> tmp, tx |-> tx]

\* The result of a fallible call: the error kind ("" on success), the storage
\* afterwards and the value returned.
Ok(st, val) == [ok |-> TRUE, err |-> "", st |-> st, val |-> val]
Err(st, kind) == [ok |-> FALSE, err |-> kind, st |-> st, val |-> None]

\* Where the environment makes a call fail: `at` names the failing system
\* call or git command ("" for none).  The RwLock is never poisoned: no thread
\* panics holding it.
NoFail == [at |-> ""]
FailAt(at) == [at |-> at]

\* JsonStorage::new
JsonNew(db) ==
    IF db.exists
    THEN IF db.complete
         THEN Ok(MkStorage("json", Deserialize(db.entries), db, NoFile, NoFile), None)
         ELSE Err(MkStorage("json", EmptyMap, db, NoFile, NoFile), "Serde")
    ELSE Ok(MkStorage("json", EmptyMap, db, NoFile, NoFile), None)

\* JsonStorage::persist_node
JsonPersistNode(st, node) ==
    Ok([st EXCEPT !.nodes = MapInsert(st.nodes, node.id, node)], None)

\* JsonStorage::load_node
JsonLoadNode(st, id) ==
    IF id \in DOMAIN st.nodes THEN Ok(st, st.nodes[id]) ELSE Err(st, "NodeNotFound")

\* JsonStorage::list_roots
JsonListRoots(st) == {i \in DOMAIN st.nodes : st.nodes[i].parents = <<>>}

\* JsonStorage::begin_tx
JsonBeginTx(st) == Ok(st, "tx")

\* JsonStorage::commit_tx: create_dir_all, File::create (which truncates the
\* graph file), then the document goes through a BufWriter that is dropped
\* inside to_writer_pretty: an error of the flush on drop is discarded.
JsonCommitTx(st, io) ==
    LET doc == Serialize(st.nodes)
    IN CASE io.at = "mkdir"  -> Err(st, "Io")
         [] io.at = "create" -> Err(st, "Io")
         [] io.at = "write"  -> Err([st EXCEPT !.db = PartialFile], "Serde")
         [] io.at = "flush"  -> Ok([st EXCEPT !.db = PartialFile], None)
         [] OTHER            -> Ok([st EXCEPT !.db = FileOf(doc)], None)

\* JsonStorage::rollback_tx
JsonRollbackTx(st, io) ==
    IF st.db.exists
    THEN IF io.at = "open" THEN Err(st, "Io")
         ELSE IF ~st.db.complete THEN Err(st, "Serde")
         ELSE Ok([st EXCEPT !.nodes = Deserialize(st.db.entries)], None)
    ELSE Ok([st EXCEPT !.nodes = EmptyMap], None)

\* FileStorage::load_all
FileLoadAll(st, io) ==
    IF ~st.db.exists THEN Ok(st, EmptyMap)
    ELSE IF io.at = "read" THEN Err(st, "Io")
    ELSE IF ~st.db.complete THEN Err(st, "Serde")
    ELSE Ok(st, Deserialize(st.db.entries))

\* FileStorage::save_all: write graph.tmp, then rename it over graph.json
FileSaveAll(st, graph, io) ==
    LET doc == Serialize(graph)
    IN CASE io.at = "write"  -> Err([st EXCEPT !.tmp = PartialFile], "Io")
         [] io.at = "rename" -> Err([st EXCEPT !.tmp = FileOf(doc)], "Io")
         [] OTHER            -> Ok([st EXCEPT !.db = FileOf(doc), !.tmp = NoFile], None)

\* persist_node as it would be if it added the node's entry to the end of the
\* graph file instead of rewriting the map it read
FilePersistNodeAppending(st, node, io) ==
    LET g == FileLoadAll(st, io)
    IN IF ~g.ok THEN Err(st, g.err)
       ELSE Ok([st EXCEPT !.db = FileOf(Append(st.db.entries,
                                    [key |-> node.id, value |-> SerializeNode(node)]))], None)

\* FileStorage::persist_node
FilePersistNode(st, node, io) ==
    LET g == FileLoadAll(st, io)
    IN IF ~g.ok THEN Err(st, g.err)
       ELSE FileSaveAll(st, MapInsert(g.val, node.id, node), io)

\* FileStorage::load_node
FileLoadNode(st, id, io) ==
    LET g == FileLoadAll(st, io)
    IN IF ~g.ok THEN Err(st, g.err)
       ELSE IF id \in DOMAIN g.val THEN Ok(st, g.val[id])
       ELSE Err(st, "NodeNotFound")

\* FileStorage::list_roots (of a readable graph file)
FileListRoots(st) ==
    LET g == FileLoadAll(st, NoFail)
    IN IF g.ok THEN {i \in DOMAIN g.val : g.val[i].parents = <<>>} ELSE {}

\* FileStorage::begin_tx: fs::copy(graph.json, graph.tx)
FileBeginTx(st, io) ==
    IF ~st.db.exists THEN Err(st, "Io")
    ELSE IF io.at = "copy"
    THEN Err([st EXCEPT !.tx = PartialFile], "Io")
    ELSE Ok([st EXCEPT !.tx = st.db], "tx")

\* FileStorage::commit_tx: fs::rename(graph.tx, graph.json)
FileCommitTx(st, io) ==
    IF ~st.tx.exists \/ io.at = "rename" THEN Err(st, "Io")
    ELSE Ok([st EXCEPT !.db = st.tx, !.tx = NoFile], None)

\* FileStorage::rollback_tx
FileRollbackTx(st, io) ==
    IF st.tx.exists
    THEN IF io.at = "remove" THEN Err(st, "Io")
         ELSE Ok([st EXCEPT !.tx = NoFile], None)
    ELSE Ok(st, None)

\* The GraphStorage trait object: dispatch on the implementation.
PersistNode(st, node, io) ==
    IF st.impl = "json" THEN JsonPersistNode(st, node) ELSE FilePersistNode(st, node, io)
LoadNode(st, id, io) ==
    IF st.impl = "json" THEN JsonLoadNode(st, id) ELSE FileLoadNode(st, id, io)
ListRoots(st) ==
    IF st.impl = "json" THEN JsonListRoots(st) ELSE FileListRoots(st)
BeginTx(st, io) ==
    IF st.impl = "json" THEN JsonBeginTx(st) ELSE FileBeginTx(st, io)
CommitTx(st, io) ==
    IF st.impl = "json" THEN JsonCommitTx(st, io) ELSE FileCommitTx(st, io)
RollbackTx(st, io) ==
    IF st.impl = "json" THEN JsonRollbackTx(st, io) ELSE FileRollbackTx(st, io)

\* The graph a storage opened on the file `db` would hold; unreadable when
\* the file does not parse.
DiskImage(db) ==
    IF ~db.exists THEN [readable |-> TRUE, map |-> EmptyMap]
    ELSE IF db.complete THEN [readable |-> TRUE, map |-> Deserialize(db.entries)]
    ELSE [readable |-> FALSE, map |-> EmptyMap]

\* What load_node answers for every id: the image a caller can observe.
\* JsonStorage answers from its map, FileStorage from its graph file.
Image(st) ==
    IF st.impl = "json" THEN [readable |-> TRUE, map |-> st.nodes]
    ELSE DiskImage(st.db)


\* ------------------------------------------------------------------- state
VARIABLES
    storage,    \* the GraphStorage object (VersionGraph.storage) and its files
    commits,    \* the commit objects the backend has created; a commit's id
                \* stands for the hash of its content and is its position here
    gitLink,    \* what the path .git is: "absent", "dir" (a real directory
                \* with a repository in it), "emptydir" (an empty one)
                \* or the context name whose store .git_<name> it links to
    stores,     \* the context names whose store .git_<name> exists
    held,       \* which object database holds what: the places (a context
                \* name, or "dir" for a real directory .git) that hold the
                \* tree of the working directory, and the <<place, id>> of
                \* every commit object
    ops,        \* how many commands have run so far
    faults,     \* how many failures the environment has injected so far
    last,       \* the last call: its name, its error kind ("" on success)
                \* and the node id it returned or was about
    txOpen,     \* storage client: a TxHandle is held
    txPre,      \* storage client: the image and the graph file at begin_tx
    txWritten,  \* storage client: the nodes persisted under the held handle
    pushCall,   \* the last push: its arguments, the remote tip it read and
                \* its result
    cli,        \* the command line: the id .gitpp/HEAD holds (None when the
                \* file is missing or empty), whether the last add named its
                \* parents, and the exit code of the last command
    threads     \* the threads inside switch_context: where each one is, its
                \* target and its result; the stores that are links; the
                \* working directory the threads started from

vars == <<storage, commits, gitLink, stores, held, ops, faults, last, txOpen, txPre,
          txWritten, pushCall, cli, threads>>


Last(op, err, id) == [op |-> op, err |-> err, id |-> id]
\* A change of permissions: the node it named and the remote's name and url
\* (a removal names no url).
LastChange(op, err, id, name, url) ==
    [op |-> op, err |-> err, id |-> id, name |-> name, url |-> url]

\* The stored graph as VersionGraph sees it.
Stored == DOMAIN storage.nodes
NodeOf(id) == storage.nodes[id]

\* ------------------------------------------------------------ git backend
\* The content a commit id is derived from: git commit-tree hashes the tree,
\* the parents, the message and the author/committer lines with their
\* timestamps in seconds.  The working directory holds one snapshot here.
\* (What the commit's content would be if git left the parents out of the
\* hash.)
CommitContentWithoutParents(parents, message, time) ==
    [parents |-> <<>>, message |-> message, time |-> time]

CommitContent(parents, message, time) ==
    [parents |-> parents, message |-> message, time |-> time]

\* The id of a commit with this content: the one it already has, or the next.
CommitIdOf(objs, content) ==
    IF \E i \in DOMAIN objs : objs[i] = content
    THEN CHOOSE i \in DOMAIN objs : objs[i] = content
    ELSE Len(objs) + 1

\* GitRepo::create_commit: git commit-tree, then git update-ref HEAD.
\* io.at = "commit_tree" fails before the object exists, "update_ref" after.
\* commit-tree reads every parent from the object database .git leads to,
\* and writes the commit there.
CreateCommit(objs, hd, link, parents, message, time, io) ==
    LET content == CommitContent(parents, message, time)
        id == CommitIdOf(objs, content)
        written == IF id \in DOMAIN objs THEN objs ELSE Append(objs, content)
        kept == [hd EXCEPT !.commits = @ \cup {<<link, id>>}]
    IN IF \/ link \in {"absent"}
          \/ io.at = "commit_tree"
          \/ \E i \in DOMAIN parents : <<link, parents[i]>> \notin hd.commits
       THEN [ok |-> FALSE, objs |-> objs, held |-> hd, id |-> None]
       ELSE IF io.at = "update_ref"
       THEN [ok |-> FALSE, objs |-> written, held |-> kept, id |-> None]
       ELSE [ok |-> TRUE, objs |-> written, held |-> kept, id |-> id]

\* The object databases as git init leaves them: empty.
NoObjects == [trees |-> {}, commits |-> {}]

\* GitRepo::create_tree: git add -A, git write-tree
CreateTree(link, io) == ~(link = "absent" \/ io.at = "create_tree")

\* write-tree leaves the tree in the object database .git leads to
TreeWritten(hd, link) == [hd EXCEPT !.trees = @ \cup {link}]

\* switch_context without lines 60-72: a missing store is linked to, not
\* created.
SwitchContextUninitialised(link, sts, name, io) ==
    IF link = "dir" \/ (link # "absent" /\ io.at = "unlink") \/ io.at = "symlink"
    THEN [ok |-> FALSE, link |-> link, sts |-> sts]
    ELSE [ok |-> TRUE, link |-> name, sts |-> sts]

\* GitRepo::switch_context.  The result: ok, the link and the stores after.
SwitchContext(link, sts, name, io) ==
    LET removed ==
            \* lines 52-58: remove_file succeeds on a link only; remove_dir
            \* fails on a directory that git init filled ("dir") and
            \* succeeds on an empty one ("emptydir")
            IF link = "absent" THEN [ok |-> TRUE, link |-> "absent"]
            ELSE IF link = "dir" \/ io.at = "unlink" THEN [ok |-> FALSE, link |-> link]
            ELSE [ok |-> TRUE, link |-> "absent"]
        inited ==
            \* lines 60-72: git init (its exit status is not read), then the
            \* new .git is renamed to the store
            IF name \in sts THEN [ok |-> TRUE, link |-> "absent", sts |-> sts]
            ELSE IF io.at \in {"spawn", "init"}
            THEN [ok |-> FALSE, link |-> "absent", sts |-> sts]
            ELSE IF io.at = "rename_store"
            THEN [ok |-> FALSE, link |-> "dir", sts |-> sts]
            ELSE [ok |-> TRUE, link |-> "absent", sts |-> sts \cup {name}]
    IN IF ~removed.ok THEN [ok |-> FALSE, link |-> removed.link, sts |-> sts]
       ELSE IF ~inited.ok THEN [ok |-> FALSE, link |-> inited.link, sts |-> inited.sts]
       ELSE IF io.at = "symlink" THEN [ok |-> FALSE, link |-> "absent", sts |-> inited.sts]
       ELSE [ok |-> TRUE, link |-> name, sts |-> inited.sts]

\* GitRepo::checkout_node.  `ctx` is the element HashSet::iter yields first,
\* which the hasher's random seed decides; "origin" when remotes is empty.
CheckoutContexts(node) ==
    IF node.remotes = {} THEN {"origin"} ELSE {r.name : r \in node.remotes}

\* read-tree finds the node's tree in the store switched to, or fails.
CheckoutNode(link, sts, hd, ctx, io) ==
    LET sw == SwitchContext(link, sts, ctx, io)
    IN IF ~sw.ok THEN sw
       ELSE IF io.at = "read_tree" \/ ctx \notin hd.trees THEN [sw EXCEPT !.ok = FALSE]
       ELSE sw


\* ------------------------------------------------------------ VersionGraph
\* Option<Vec<String>> requested_remotes
NoRequest == [some |-> FALSE, names |-> {}]
Request(names) == [some |-> TRUE, names |-> names]
Requests == {NoRequest} \cup {Request(ns) : ns \in SUBSET RemoteNames}

RECURSIVE SeqsUpTo(_, _)
\* The sequences over S of at most n elements, none repeated.
SeqsUpTo(S, n) ==
    IF n = 0 THEN {<<>>}
    ELSE LET shorter == SeqsUpTo(S, n - 1)
         IN shorter \cup UNION {{Append(q, x) : x \in S \ SeqToSet(q)} : q \in shorter}
\* The parents lists add_node is called with: stored ids, and one id that is
\* not stored when there is one (every such id fails to load alike).
MissingIds(st) ==
    IF NodeIds \subseteq DOMAIN st.nodes THEN {}
    ELSE {CHOOSE i \in NodeIds \ DOMAIN st.nodes : TRUE}
ParentLists(st) == SeqsUpTo(DOMAIN st.nodes \cup MissingIds(st), MaxNodes)

\* add_node lines 28-36: allowed_remotes, the HashMap name -> RemoteRef filled
\* parent by parent.  A later insert of a name replaces the earlier one, so a
\* name keeps a RemoteRef of the last parent that has it; among several
\* RemoteRefs of that name in one parent the HashSet's iteration order decides.
LastParentWith(st, parents, name) ==
    CHOOSE i \in DOMAIN parents :
        /\ \E r \in st.nodes[parents[i]].remotes : r.name = name
        /\ \A j \in DOMAIN parents :
               (\E r \in st.nodes[parents[j]].remotes : r.name = name) => j <= i

ParentRemoteNames(st, parents) ==
    {r.name : r \in UNION {st.nodes[parents[i]].remotes : i \in DOMAIN parents}}

\* For each name, the RemoteRefs allowed_remotes can end up holding.
LastInserted(st, parents) ==
    [n \in ParentRemoteNames(st, parents) |->
        {r \in st.nodes[parents[LastParentWith(st, parents, n)]].remotes : r.name = n}]

PickEach(choices) ==
    {f \in [DOMAIN choices -> UNION {choices[n] : n \in DOMAIN choices}] :
        \A n \in DOMAIN choices : f[n] \in choices[n]}

AllowedRemotes(st, parents) == PickEach(LastInserted(st, parents))

\* add_node as it would be if the requested names were turned into remotes
\* without asking the parents (the root rule applied to every node)
FinalRemotesUnchecked(parents, req, allowed) ==
    IF req.some
    THEN [ok |-> TRUE, set |-> {RemoteRef(n, "") : n \in req.names}]
    ELSE IF parents = <<>>
         THEN [ok |-> TRUE, set |-> {RemoteRef("origin", "")}]
         ELSE [ok |-> TRUE, set |-> {allowed[n] : n \in DOMAIN allowed}]

\* add_node as it would be if a root were validated against its (missing)
\* parents as every other node is
FinalRemotesValidatingRoots(parents, req, allowed) ==
    IF req.some
    THEN IF req.names \subseteq DOMAIN allowed
         THEN [ok |-> TRUE, set |-> {allowed[n] : n \in req.names}]
         ELSE [ok |-> FALSE, set |-> {}]
    ELSE IF parents = <<>>
         THEN [ok |-> TRUE, set |-> {RemoteRef("origin", "")}]
         ELSE [ok |-> TRUE, set |-> {allowed[n] : n \in DOMAIN allowed}]

\* add_node lines 39-86: final_remotes
FinalRemotes(parents, req, allowed) ==
    IF req.some
    THEN IF parents = <<>>
         THEN [ok |-> TRUE, set |-> {RemoteRef(n, "") : n \in req.names}]
         ELSE IF req.names \subseteq DOMAIN allowed
         THEN [ok |-> TRUE, set |-> {allowed[n] : n \in req.names}]
         ELSE [ok |-> FALSE, set |-> {}]
    ELSE IF parents = <<>>
         THEN [ok |-> TRUE, set |-> {RemoteRef("origin", "")}]
         ELSE [ok |-> TRUE, set |-> {allowed[n] : n \in DOMAIN allowed}]

RECURSIVE LinkChildren(_, _, _, _)
\* add_node lines 108-112: each parent is loaded, gets the child, is persisted
LinkChildren(st, parents, id, io) ==
    IF parents = <<>> THEN Ok(st, None)
    ELSE LET l == LoadNode(st, Head(parents), io)
         IN IF ~l.ok THEN Err(st, l.err)
            ELSE LET p == PersistNode(st, [l.val EXCEPT !.children = @ \cup {id}], io)
                 IN IF ~p.ok THEN Err(p.st, p.err)
                    ELSE LinkChildren(p.st, Tail(parents), id, io)

\* add_node lines 105-115: the storage transaction.  An error of a step is
\* returned by `?` as it is: the code never calls rollback_tx.
PersistNewNode(st, node, io) ==
    LET b == BeginTx(st, io)
    IN IF ~b.ok THEN Err(b.st, b.err)
       ELSE LET p == PersistNode(b.st, node, io)
            IN IF ~p.ok THEN Err(p.st, p.err)
               ELSE LET c == LinkChildren(p.st, node.parents, node.id, io)
                    IN IF ~c.ok THEN Err(c.st, c.err)
                       ELSE LET d == CommitTx(c.st, io)
                            IN IF ~d.ok THEN Err(d.st, d.err) ELSE Ok(d.st, node.id)

Res(err, st, objs, hd, id) ==
    [err |-> err, st |-> st, objs |-> objs, held |-> hd, id |-> id]

RECURSIVE LoadParentsError(_, _, _)
\* add_node lines 30-31: the error of the first parent that does not load
LoadParentsError(st, parents, io) ==
    IF parents = <<>> THEN ""
    ELSE LET l == LoadNode(st, Head(parents), io)
         IN IF ~l.ok THEN l.err ELSE LoadParentsError(st, Tail(parents), io)

\* The values allowed_remotes can take; none is computed when a parent fails
\* to load.
AllowedChoices(st, parents, io) ==
    IF LoadParentsError(st, parents, io) = "" THEN AllowedRemotes(st, parents)
    ELSE {[n \in {} |-> RemoteRef("origin", "")]}

\* add_node as it would be if the remotes were validated after the node was
\* committed and persisted
AddNodeOpValidatingLate(st, objs, hd, link, time, parents, req, message, allowed, io) ==
    LET final == FinalRemotes(parents, req, allowed)
        t == TreeWritten(hd, link)
        c == CreateCommit(objs, t, link, parents, message, time, io)
        node == MkNode(c.id, parents, {}, final.set, message, time)
        w == PersistNewNode(st, node, io)
    IN IF LoadParentsError(st, parents, io) # ""
       THEN Res(LoadParentsError(st, parents, io), st, objs, hd, None)
       ELSE IF ~CreateTree(link, io) THEN Res("Backend", st, objs, hd, None)
       ELSE IF ~c.ok THEN Res("Backend", st, c.objs, c.held, None)
       ELSE IF ~w.ok THEN Res(w.err, w.st, c.objs, c.held, None)
       ELSE IF ~final.ok THEN Res("Validation", w.st, c.objs, c.held, None)
       ELSE Res("", w.st, c.objs, c.held, c.id)

\* add_node as it would be if the tree and the commit were made before the
\* parents were loaded and the requested remotes validated
AddNodeOpCommittingFirst(st, objs, hd, link, time, parents, req, message, allowed, io) ==
    LET final == FinalRemotes(parents, req, allowed)
        t == TreeWritten(hd, link)
        c == CreateCommit(objs, t, link, parents, message, time, io)
        node == MkNode(c.id, parents, {}, final.set, message, time)
        w == PersistNewNode(st, node, io)
    IN IF ~CreateTree(link, io) THEN Res("Backend", st, objs, hd, None)
       ELSE IF ~c.ok /\ LoadParentsError(st, parents, io) = ""
       THEN Res("Backend", st, c.objs, c.held, None)
       ELSE IF LoadParentsError(st, parents, io) # ""
       THEN Res(LoadParentsError(st, parents, io), st, c.objs, c.held, None)
       ELSE IF ~final.ok THEN Res("Validation", st, c.objs, c.held, None)
       ELSE IF ~w.ok THEN Res(w.err, w.st, c.objs, c.held, None)
       ELSE Res("", w.st, c.objs, c.held, c.id)

\* add_node as it would be if the storage transaction ran before the tree and
\* the commit were made (the node's id being the hash the commit will have)
AddNodeOpStoringFirst(st, objs, hd, link, time, parents, req, message, allowed, io) ==
    LET final == FinalRemotes(parents, req, allowed)
        t == TreeWritten(hd, link)
        c == CreateCommit(objs, t, link, parents, message, time, io)
        id == CommitIdOf(objs, CommitContent(parents, message, time))
        node == MkNode(id, parents, {}, final.set, message, time)
        w == PersistNewNode(st, node, io)
    IN IF LoadParentsError(st, parents, io) # ""
       THEN Res(LoadParentsError(st, parents, io), st, objs, hd, None)
       ELSE IF ~final.ok THEN Res("Validation", st, objs, hd, None)
       ELSE IF ~w.ok THEN Res(w.err, w.st, objs, hd, None)
       ELSE IF ~CreateTree(link, io) THEN Res("Backend", w.st, objs, hd, None)
       ELSE IF ~c.ok THEN Res("Backend", w.st, c.objs, c.held, None)
       ELSE Res("", w.st, c.objs, c.held, c.id)

\* VersionGraph::add_node
AddNodeOp(st, objs, hd, link, time, parents, req, message, allowed, io) ==
    LET final == FinalRemotes(parents, req, allowed)
        t == TreeWritten(hd, link)
        c == CreateCommit(objs, t, link, parents, message, time, io)
        node == MkNode(c.id, parents, {}, final.set, message, time)
        w == PersistNewNode(st, node, io)
    IN IF LoadParentsError(st, parents, io) # ""
       THEN Res(LoadParentsError(st, parents, io), st, objs, hd, None)
       ELSE IF ~final.ok THEN Res("Validation", st, objs, hd, None)
       ELSE IF ~CreateTree(link, io) THEN Res("Backend", st, objs, hd, None)
       ELSE IF ~c.ok THEN Res("Backend", st, c.objs, c.held, None)
       ELSE IF ~w.ok THEN Res(w.err, w.st, c.objs, c.held, None)
       ELSE Res("", w.st, c.objs, c.held, c.id)

\* remove_remote as it would be if it compared whole RemoteRefs (name and
\* url), the way the set's own identity does
RemoveRemoteExact(node, name) == [node EXCEPT !.remotes = @ \ {RemoteRef(name, "")}]

\* Node::add_remote, Node::remove_remote
AddRemote(node, remote) == [node EXCEPT !.remotes = @ \cup {remote}]
RemoveRemote(node, name) == [node EXCEPT !.remotes = {r \in @ : r.name # name}]

\* The node after the change: [add, remote] or [remove, name].
Changed(node, change) ==
    IF change.add THEN AddRemote(node, change.remote) ELSE RemoveRemote(node, change.name)

\* add_remote_permission / remove_remote_permission: begin_tx, load_node,
\* change the node, persist_node, commit_tx.
ChangeNodeOp(st, id, change, io) ==
    LET b == BeginTx(st, io)
    IN IF ~b.ok THEN Err(b.st, b.err)
       ELSE LET l == LoadNode(b.st, id, io)
            IN IF ~l.ok THEN Err(b.st, l.err)
               ELSE LET p == PersistNode(b.st, Changed(l.val, change), io)
                    IN IF ~p.ok THEN Err(p.st, p.err)
                       ELSE LET d == CommitTx(p.st, io)
                            IN IF ~d.ok THEN Err(d.st, d.err) ELSE Ok(d.st, id)

\* VersionGraph::add_remote_permission
AddRemotePermissionOp(st, id, remote, io) ==
    ChangeNodeOp(st, id, [add |-> TRUE, remote |-> remote, name |-> remote.name], io)

\* VersionGraph::remove_remote_permission
RemoveRemotePermissionOp(st, id, name, io) ==
    ChangeNodeOp(st, id, [add |-> FALSE, remote |-> RemoteRef(name, ""), name |-> name], io)


\* ---------------------------------------------------------------- actions
\* The failures the environment may inject into a call: none, or one of
\* `points` while the budget lasts.
Inject(points) ==
    {NoFail} \cup (IF faults < MaxFaults THEN {FailAt(a) : a \in points} ELSE {})
\* A command runs, with the failure `io` injected.
Command(io) ==
    /\ ops < MaxOps
    /\ ops' = ops + 1
    /\ faults' = IF io = NoFail THEN faults ELSE faults + 1

CommitFailures == {"create", "write", "flush"}
\* The remotes chrm is called with.
ChrmRemotes == {RemoteRef("origin", ""), RemoteRef("origin", "u"), RemoteRef("secret", "")}

\* No push has been called.
NoPush ==
    [called |-> FALSE, node |-> None, remote |-> RemoteRef("", ""), head |-> None,
     dry |-> FALSE, err |-> "", nodes |-> <<>>, did |-> FALSE, update |-> FALSE,
     ref |-> None, at |-> ""]

\* The command line after gpp init: no HEAD file.
NoCli == [head |-> None, given |-> TRUE, exit |-> 0]

\* main.rs lines 160-164: the parents of an add that names none are the id in
\* HEAD, or none when HEAD holds nothing.
DefaultParents(head) == IF head = None THEN <<>> ELSE <<head>>

\* main as it would be if a checkout did not write HEAD (lines 215-217 left
\* out)
AfterDispatchAddOnly(c, op, given, err, id, io) ==
    LET writes == err = "" /\ op = "add_node"
    IN [head |-> IF writes /\ io.at # "head_write" THEN id ELSE c.head,
        given |-> given,
        exit |-> IF writes /\ io.at = "head_write" THEN 1 ELSE 0]

\* main.rs lines 203-231: what main does with the result of dispatch.  An
\* error is printed to stderr and main returns Ok(()), as it does after a
\* success; a successful add or checkout writes the id to HEAD first, and an
\* error of that write is returned (`?`), which ends the process with 1.
AfterDispatch(c, op, given, err, id, io) ==
    LET writes == err = "" /\ op \in {"add_node", "checkout"}
    IN [head |-> IF writes /\ io.at # "head_write" THEN id ELSE c.head,
        given |-> given,
        exit |-> IF writes /\ io.at = "head_write" THEN 1 ELSE 0]

\* dispatcher lines 138 and 152: node.ok_or("Node ID required ...")
RequireNode(id, st, r) == IF id = None THEN Err(st, "NodeIdRequired") ELSE r

\* Option<String> url of chrm: the value of a url that was not given.
NoUrl == "none"

\* The dispatcher as it would be if a missing url were taken as the empty one
RequireUrlDefaulting(given, st, r) == r

\* dispatcher line 144: url.ok_or("URL required for adding remote")
RequireUrl(given, st, r) == IF given THEN r ELSE Err(st, "UrlRequired")

\* main.rs lines 177 and 187: the node of chrm and push is the one named or
\* the one in HEAD; none when no node is named and HEAD holds nothing.
TargetNodes(st, head) ==
    DOMAIN st.nodes \cup MissingIds(st) \cup (IF head = None THEN {None} ELSE {})

\* No thread is inside switch_context.
NoThreads ==
    [pc |-> <<>>, ctx |-> <<>>, err |-> <<>>, aliases |-> {},
     pre |-> [link |-> "absent", sts |-> {}]]

ClientIdle ==
    /\ txOpen' = txOpen /\ txPre' = txPre /\ txWritten' = txWritten
    /\ pushCall' = pushCall
    /\ threads' = threads

\* cli main: gpp init has written "{}" to graph.json, created the store of
\* the context origin and linked .git to it; every later command opens a
\* JsonStorage on the graph file.
Init ==
    /\ storage = JsonNew(FileOf(<<>>)).st
    /\ commits = <<>>
    /\ gitLink = "origin"
    /\ stores = {"origin"}
    /\ held = NoObjects
    /\ ops = 0
    /\ faults = 0
    /\ last = Last("init", "", None)
    /\ txOpen = FALSE
    /\ txPre = [image |-> Image(storage), db |-> storage.db]
    /\ txWritten = EmptyMap
    /\ pushCall = NoPush
    /\ cli = NoCli
    /\ threads = NoThreads

\* The wall clock as the commits record it, in seconds: the time of the
\* latest commit.  `tick` tells whether a second has passed since.
LatestTime(objs) == IF objs = <<>> THEN 0 ELSE objs[Len(objs)].time
ClockReading(objs, tick) == IF tick THEN LatestTime(objs) + 1 ELSE LatestTime(objs)

\* VersionGraph::add_node(parents, author, message, requested_remotes)
AddNode ==
    \E given \in BOOLEAN :
    \E parents \in (IF given THEN ParentLists(storage) ELSE {DefaultParents(cli.head)}) :
    \E allowed \in AllowedChoices(storage, parents, NoFail) :
    \E req \in Requests, message \in Messages, tick \in BOOLEAN,
       io \in Inject({"create_tree", "update_ref", "head_write"} \cup CommitFailures) :
        /\ Command(io)
        /\ \E r \in {AddNodeOp(storage, commits, held, gitLink, ClockReading(commits, tick),
                                parents, req, message, allowed, io)} :
           /\ Len(r.objs) <= MaxNodes
           /\ storage' = r.st
           /\ commits' = r.objs
           /\ held' = r.held
           /\ last' = Last("add_node", r.err, r.id)
           /\ cli' = AfterDispatch(cli, "add_node", given, r.err, r.id, io)
           /\ UNCHANGED <<gitLink, stores>>
           /\ ClientIdle

\* Command::ChangeRemote without remove: VersionGraph::add_remote_permission(
\* node_id, remote).  `url` tells whether a url was given; a chrm without one
\* is taken once for each remote name.
AddRemotePermission ==
    \E id \in TargetNodes(storage, cli.head), remote \in ChrmRemotes, url \in BOOLEAN,
       io \in Inject(CommitFailures) :
        LET r == RequireNode(id, storage,
                     RequireUrl(url, storage, AddRemotePermissionOp(storage, id, remote, io)))
        IN /\ Command(io)
           /\ url \/ (remote.url = "" /\ io = NoFail)
           /\ storage' = r.st
           /\ last' = LastChange("add_remote_permission", r.err, id, remote.name,
                                 IF url THEN remote.url ELSE NoUrl)
           /\ cli' = AfterDispatch(cli, "add_remote_permission", TRUE, r.err, None, io)
           /\ UNCHANGED <<commits, gitLink, stores, held>>
           /\ ClientIdle

\* VersionGraph::remove_remote_permission(node_id, remote_name)
RemoveRemotePermission ==
    \E id \in TargetNodes(storage, cli.head), name \in RemoteNames,
       io \in Inject(CommitFailures) :
        LET r == RequireNode(id, storage, RemoveRemotePermissionOp(storage, id, name, io))
        IN /\ Command(io)
           /\ storage' = r.st
           /\ last' = LastChange("remove_remote_permission", r.err, id, name, "")
           /\ cli' = AfterDispatch(cli, "remove_remote_permission", TRUE, r.err, None, io)
           /\ UNCHANGED <<commits, gitLink, stores, held>>
           /\ ClientIdle

\* VersionGraph::checkout(node_id)
Checkout ==
    \E id \in Stored \cup MissingIds(storage),
       io \in Inject({"unlink", "init", "rename_store", "symlink", "read_tree", "head_write"}) :
        LET l == LoadNode(storage, id, io)
        IN /\ Command(io)
           /\ IF ~l.ok
              THEN /\ last' = Last("checkout", l.err, None)
                   /\ cli' = AfterDispatch(cli, "checkout", TRUE, l.err, None, io)
                           /\ UNCHANGED <<storage, commits, gitLink, stores, held>>
                   /\ ClientIdle
              ELSE \E ctx \in CheckoutContexts(l.val) :
                   LET c == CheckoutNode(gitLink, stores, held, ctx, io)
                   IN /\ gitLink' = c.link
                      /\ stores' = c.sts
                      /\ last' = Last("checkout", IF c.ok THEN "" ELSE "Backend", id)
                      /\ cli' = AfterDispatch(cli, "checkout", TRUE,
                                              IF c.ok THEN "" ELSE "Backend", id, io)
                                 /\ UNCHANGED <<storage, commits, held>>
                      /\ ClientIdle

\* cli main lines 128-133: the next command runs in a new process, which
\* opens JsonStorage on the graph file again.
Reopen ==
    /\ storage.impl = "json"
    /\ ~txOpen
    /\ JsonNew(storage.db).ok
    /\ storage' = JsonNew(storage.db).st
    /\ storage' # storage
    /\ last' = Last("new", "", None)
    /\ UNCHANGED <<commits, gitLink, stores, held, ops, faults, cli>>
    /\ ClientIdle

Next ==
    \/ AddNode
    \/ AddRemotePermission
    \/ RemoveRemotePermission
    \/ Checkout
    \/ Reopen

Spec == Init /\ [][Next]_vars

\* A history of gpp add commands only.
AddNext == AddNode

AddSpec == Init /\ [][AddNext]_vars


\* ------------------------------------------------- the storage on its own
\* A client of the GraphStorage trait drives either implementation the way
\* VersionGraph does: begin_tx, persist_node any number of times, then
\* commit_tx or rollback_tx.

\* The nodes add_node persists: a new root, the root once it has a child,
\* and the child.
StorageNodes ==
    { MkNode(1, <<>>, {}, {RemoteRef("origin", "")}, "m", 0),
      MkNode(1, <<>>, {2}, {RemoteRef("origin", "")}, "m", 0),
      MkNode(2, <<1>>, {}, {RemoteRef("origin", "")}, "m", 0) }

\* The graph file a storage is opened on: none, the "{}" that init writes,
\* or a graph of one root.
InitialFiles ==
    { NoFile,
      FileOf(<<>>),
      FileOf(Serialize(MapInsert(EmptyMap, 1,
                MkNode(1, <<>>, {}, {RemoteRef("origin", "")}, "m", 0)))) }

\* JsonStorage::new / FileStorage::new on the file `db`
NewStorage(impl, db) ==
    IF impl = "json" THEN JsonNew(db).st ELSE MkStorage("file", EmptyMap, db, NoFile, NoFile)

\* A storage call runs, with the failure `io` injected.
StorageCall(io) ==
    /\ faults' = (IF io = NoFail THEN faults ELSE faults + 1)
    /\ UNCHANGED <<commits, gitLink, stores, held, ops, pushCall, cli, threads>>

StorageInit ==
    /\ \E impl \in {"json", "file"}, db \in InitialFiles : storage = NewStorage(impl, db)
    /\ commits = <<>>
    /\ gitLink = "origin"
    /\ stores = {"origin"}
    /\ held = NoObjects
    /\ ops = 0
    /\ faults = 0
    /\ last = Last("new", "", None)
    /\ txOpen = FALSE
    /\ txPre = [image |-> Image(storage), db |-> storage.db]
    /\ txWritten = EmptyMap
    /\ pushCall = NoPush
    /\ cli = NoCli
    /\ threads = NoThreads

SBeginTx ==
    \E io \in Inject({"copy"}) :
        LET r == BeginTx(storage, io)
        IN /\ ~txOpen
           /\ StorageCall(io)
           /\ storage' = r.st
           /\ txOpen' = r.ok
           /\ txPre' = [image |-> Image(storage), db |-> storage.db]
           /\ txWritten' = EmptyMap
           /\ last' = Last("begin_tx", r.err, None)

SPersistNode ==
    \E node \in StorageNodes, io \in Inject({"read", "write", "rename"}) :
        LET r == PersistNode(storage, node, io)
        IN /\ txOpen
           /\ StorageCall(io)
           /\ storage' = r.st
           /\ txWritten' = (IF r.ok THEN MapInsert(txWritten, node.id, node) ELSE txWritten)
           /\ last' = Last("persist_node", r.err, node.id)
           /\ UNCHANGED <<txOpen, txPre>>

SCommitTx ==
    \E io \in Inject({"mkdir", "rename"} \cup CommitFailures) :
        LET r == CommitTx(storage, io)
        IN /\ txOpen
           /\ StorageCall(io)
           /\ storage' = r.st
           /\ txOpen' = FALSE
           /\ last' = Last("commit_tx", r.err, None)
           /\ UNCHANGED <<txPre, txWritten>>

SRollbackTx ==
    \E io \in Inject({"open", "remove"}) :
        LET r == RollbackTx(storage, io)
        IN /\ txOpen
           /\ StorageCall(io)
           /\ storage' = r.st
           /\ txOpen' = FALSE
           /\ last' = Last("rollback_tx", r.err, None)
           /\ UNCHANGED <<txPre, txWritten>>

StorageNext ==
    \/ SBeginTx
    \/ SPersistNode
    \/ SCommitTx
    \/ SRollbackTx
    \/ Reopen

StorageSpec == StorageInit /\ [][StorageNext]_vars


\* ------------------------------------------------------- the push manager
\* VersionGraph::get_node: Storage::load_node on the graph's storage
GetNode(st, id) == LoadNode(st, id, NoFail)

RECURSIVE ValidateContiguousRemotes(_, _, _, _)
\* PushManager::validate_contiguous_remotes: the walk from start_id along
\* the first parent, up to end_id or a root.  "" when it returns Ok.
ValidateContiguousRemotes(st, current_id, remote, end_id) ==
    IF end_id # None /\ end_id = current_id THEN ""
    ELSE IF ~GetNode(st, current_id).ok THEN "NodeNotFound"
    ELSE LET current_node == GetNode(st, current_id).val
         IN IF remote \notin current_node.remotes THEN "Contiguity"
            ELSE IF current_node.parents = <<>> THEN ""
            ELSE ValidateContiguousRemotes(st, current_node.parents[1], remote, end_id)

RECURSIVE EnqueueParents(_, _, _)
\* compute_nodes_to_push lines 128-132: each parent not yet visited is
\* marked and queued, in the order of the parents list
EnqueueParents(parents, queue, visited) ==
    IF parents = <<>> THEN [queue |-> queue, visited |-> visited]
    ELSE IF Head(parents) \in visited
         THEN EnqueueParents(Tail(parents), queue, visited)
         ELSE EnqueueParents(Tail(parents), Append(queue, Head(parents)),
                             visited \cup {Head(parents)})

RECURSIVE Traverse(_, _, _, _, _)
\* compute_nodes_to_push lines 115-133: the breadth-first loop
Traverse(st, remote_tip, queue, visited, nodes_to_push) ==
    IF queue = <<>> THEN [err |-> "", nodes |-> nodes_to_push]
    ELSE LET current_id == Head(queue)
         IN IF remote_tip # None /\ remote_tip = current_id
            THEN Traverse(st, remote_tip, Tail(queue), visited, nodes_to_push)
            ELSE IF ~GetNode(st, current_id).ok
            THEN [err |-> "NodeNotFound", nodes |-> <<>>]
            ELSE LET e == EnqueueParents(GetNode(st, current_id).val.parents,
                                         Tail(queue), visited)
                 IN Traverse(st, remote_tip, e.queue, e.visited,
                             Append(nodes_to_push, current_id))

Reverse(s) == [i \in 1..Len(s) |-> s[Len(s) + 1 - i]]

\* compute_nodes_to_push as it would be if the walk did not stop at the
\* remote tip (lines 103-105 and 117-119 left out)
ComputeNodesToPushThroughTip(st, node_id, remote, remote_tip) ==
    LET v == ValidateContiguousRemotes(st, node_id, remote, remote_tip)
        t == Traverse(st, None, <<node_id>>, {node_id}, <<>>)
    IN IF v # "" THEN [err |-> v, nodes |-> <<>>]
       ELSE IF t.err # "" THEN t
       ELSE [err |-> "", nodes |-> Reverse(t.nodes)]

\* PushManager::compute_nodes_to_push, with the remote tip get_remote_tip read
ComputeNodesToPush(st, node_id, remote, remote_tip) ==
    LET v == ValidateContiguousRemotes(st, node_id, remote, remote_tip)
        t == Traverse(st, remote_tip, <<node_id>>, {node_id}, <<>>)
    IN IF v # "" THEN [err |-> v, nodes |-> <<>>]
       ELSE IF remote_tip # None /\ remote_tip = node_id THEN [err |-> "", nodes |-> <<>>]
       ELSE IF t.err # "" THEN t
       ELSE [err |-> "", nodes |-> Reverse(t.nodes)]

\* PushManager::push: the walk set is computed; nothing to send answers
\* false; a dry run reports and answers true; otherwise push_update_ref runs.
\* `did` is the value returned, `update` whether push_update_ref was invoked.
PushOp(st, node_id, remote, remote_tip, dry, io) ==
    LET c == ComputeNodesToPush(st, node_id, remote, remote_tip)
    IN IF c.err # ""
       THEN [err |-> c.err, nodes |-> <<>>, did |-> FALSE, update |-> FALSE]
       ELSE IF c.nodes = <<>>
       THEN [err |-> "", nodes |-> <<>>, did |-> FALSE, update |-> FALSE]
       ELSE IF dry
       THEN [err |-> "", nodes |-> c.nodes, did |-> TRUE, update |-> FALSE]
       ELSE IF io.at = "push"
       THEN [err |-> "Backend", nodes |-> c.nodes, did |-> FALSE, update |-> TRUE]
       ELSE [err |-> "", nodes |-> c.nodes, did |-> TRUE, update |-> TRUE]

\* GitRepo::push_update_ref: git push <url> <id>:<ref>, run in the store .git
\* leads to.  The call of switch_context(remote.name) at line 153 is commented
\* out, so .git and the stores stay as they are.
PushUpdateRef(link, sts, remote) == [link |-> link, sts |-> sts]

\* GitRepo::read_ref: git rev-parse --verify <refname> in the store .git leads
\* to.  `ref` is the commit the ref names there (None when there is no such
\* ref).  Every error of run_git_command, whether git could not be run, found
\* no repository or found no such ref, is answered with Ok(None).
ReadRef(link, ref, io) ==
    IF link = "absent" \/ io.at = "rev_parse" THEN Ok(link, None) ELSE Ok(link, ref)

\* PushManager::get_remote_tip: read_ref("refs/gpp/remote/<name>")
GetRemoteTip(link, ref, io) == ReadRef(link, ref, io)

\* The remotes the nodes of a pushed graph hold, and push is called with.
PushRemotes == {RemoteRef("origin", ""), RemoteRef("secret", "")}

RECURSIVE GraphsOf(_)
\* The graphs of k nodes the graph commands build: node i was added i-th,
\* one second after the node before, with parents among the nodes before it;
\* chrm gave it any remotes.  The children are filled in by LinkedGraph.
GraphsOf(k) ==
    IF k = 0 THEN {<<>>}
    ELSE {Append(g, MkNode(k, parents, {}, remotes, "m", k - 1)) :
            g \in GraphsOf(k - 1),
            parents \in SeqsUpTo(1..(k - 1), k - 1),
            remotes \in SUBSET PushRemotes}

\* add_node lines 108-112 for every node of the graph
LinkedGraph(g) ==
    [i \in DOMAIN g |->
        [g[i] EXCEPT !.children = {c \in DOMAIN g : i \in SeqToSet(g[c].parents)}]]

\* The objects behind the nodes of the graph, all made in the store "origin".
HeldOf(g) == [trees |-> {"origin"}, commits |-> {<<"origin", i>> : i \in DOMAIN g}]

\* The commits behind the nodes of the graph.
CommitsOf(g) == [i \in DOMAIN g |-> CommitContent(g[i].parents, g[i].message, g[i].created_at)]

PushInit ==
    /\ \E g \in GraphsOf(MaxNodes) :
        /\ storage = JsonNew(FileOf(Serialize(LinkedGraph(g)))).st
        /\ commits = CommitsOf(g)
        /\ held = HeldOf(g)
    /\ gitLink = "origin"
    /\ stores = {"origin"}
    /\ ops = 0
    /\ faults = 0
    /\ last = Last("new", "", None)
    /\ txOpen = FALSE
    /\ txPre = [image |-> Image(storage), db |-> storage.db]
    /\ txWritten = EmptyMap
    /\ pushCall = NoPush
    /\ cli = NoCli
    /\ threads = NoThreads

\* Command::Push as it would be if the dispatcher did not hand dry_run on to
\* the push manager
PushIgnoringDryRun ==
    \E node_id \in Stored, remote \in PushRemotes, ref \in {None} \cup Stored,
       dry \in BOOLEAN, io \in Inject({"rev_parse", "push"}) :
        LET tip == GetRemoteTip(gitLink, ref, io)
            remote_tip == tip.val
            r == IF tip.ok THEN PushOp(storage, node_id, remote, remote_tip, FALSE, io)
                 ELSE [err |-> "Backend", nodes |-> <<>>, did |-> FALSE, update |-> FALSE]
        IN /\ ~pushCall.called
           /\ Command(io)
           /\ pushCall' = [called |-> TRUE, node |-> node_id, remote |-> remote,
                           head |-> remote_tip, dry |-> dry, err |-> r.err,
                           nodes |-> r.nodes, did |-> r.did, update |-> r.update,
                           ref |-> ref, at |-> io.at]
           /\ last' = Last("push", r.err, None)
           /\ cli' = AfterDispatch(cli, "push", TRUE, r.err, None, io)
           /\ gitLink' = (IF r.update THEN PushUpdateRef(gitLink, stores, remote).link
                          ELSE gitLink)
           /\ stores' = (IF r.update THEN PushUpdateRef(gitLink, stores, remote).sts
                         ELSE stores)
           /\ UNCHANGED <<storage, commits, held, txOpen, txPre, txWritten, threads>>

\* dispatcher lines 151-167: Command::Push.  `ref` is the commit the store
\* holds under the remote's tip ref, if any, and `remote_tip` what read_ref
\* answers for it.  A push leaves the
\* graph and the local refs as they are, so a second push in a behaviour
\* would start from the state the first one started from: one is taken.
Push ==
    \E node_id \in Stored, remote \in PushRemotes, ref \in {None} \cup Stored,
       dry \in BOOLEAN, io \in Inject({"rev_parse", "push"}) :
        LET tip == GetRemoteTip(gitLink, ref, io)
            remote_tip == tip.val
            r == IF tip.ok THEN PushOp(storage, node_id, remote, remote_tip, dry, io)
                 ELSE [err |-> "Backend", nodes |-> <<>>, did |-> FALSE, update |-> FALSE]
        IN /\ ~pushCall.called
           /\ Command(io)
           /\ pushCall' = [called |-> TRUE, node |-> node_id, remote |-> remote,
                           head |-> remote_tip, dry |-> dry, err |-> r.err,
                           nodes |-> r.nodes, did |-> r.did, update |-> r.update,
                           ref |-> ref, at |-> io.at]
           /\ last' = Last("push", r.err, None)
           /\ cli' = AfterDispatch(cli, "push", TRUE, r.err, None, io)
           /\ gitLink' = (IF r.update THEN PushUpdateRef(gitLink, stores, remote).link
                          ELSE gitLink)
           /\ stores' = (IF r.update THEN PushUpdateRef(gitLink, stores, remote).sts
                         ELSE stores)
           /\ UNCHANGED <<storage, commits, held, txOpen, txPre, txWritten, threads>>

PushNext == Push

PushSpec == PushInit /\ [][PushNext]_vars


\* ------------------------------------------- the push walk, step by step
\* JsonStorage::new reads whatever graph the file holds: serde checks the
\* shape of the document, not the parents relation.  The graphs of
\* MaxWalkNodes nodes with any parents among the stored ids, where no node
\* names itself as a parent.
AnyGraphs ==
    {g \in [1..MaxWalkNodes ->
                {MkNode(0, parents, {}, remotes, "m", 0) :
                    parents \in SeqsUpTo(1..MaxWalkNodes, MaxWalkNodes - 1),
                    remotes \in SUBSET {RemoteRef("origin", "")}}] :
        \A i \in DOMAIN g : i \notin SeqToSet(g[i].parents)}

\* The node of each key carries the key as its id.
Keyed(g) == [i \in DOMAIN g |-> [g[i] EXCEPT !.id = i]]

\* A graph file that was not written by add_node: no commit objects stand
\* behind its nodes.
WalkInit ==
    /\ \E g \in AnyGraphs :
        storage = JsonNew(FileOf(Serialize(LinkedGraph(Keyed(g))))).st
    /\ commits = <<>>
    /\ held = NoObjects
    /\ gitLink = "origin"
    /\ stores = {"origin"}
    /\ ops = 0
    /\ faults = 0
    /\ last = Last("new", "", None)
    /\ txOpen = FALSE
    /\ txPre = [image |-> Image(storage), db |-> storage.db]
    /\ txWritten = EmptyMap
    /\ pushCall = NoPush
    /\ cli = NoCli
    /\ threads = NoThreads

\* A push at the top of one of its loops: `pc` says which, `current` is
\* current_id of the permission walk, `queue` and `visited` belong to the
\* collection.
Walking(call, pc, current, queue, visited, nodes) ==
    [called |-> TRUE, node |-> call.node, remote |-> call.remote, head |-> call.head,
     dry |-> call.dry, err |-> "", nodes |-> nodes, did |-> FALSE, update |-> FALSE,
     ref |-> call.ref, at |-> "",
     pc |-> pc, current |-> current, queue |-> queue, visited |-> visited]

\* The push has returned: with an error, or with the nodes to send (a dry run,
\* so push_update_ref is not called).
Returned(call, err, nodes) ==
    [Walking(call, "done", None, <<>>, {}, nodes) EXCEPT !.err = err, !.did = nodes # <<>>]

WalkIdle ==
    UNCHANGED <<storage, commits, gitLink, stores, held, faults, txOpen, txPre, txWritten,
                threads>>

\* compute_nodes_to_push lines 97-100: the tip is read and the permission walk
\* starts at the pushed node.
WalkStart ==
    \E node_id \in Stored, ref \in {None} \cup Stored :
        /\ ~pushCall.called
        /\ ops < MaxOps
        /\ ops' = ops + 1
        /\ pushCall' = Walking([node |-> node_id, remote |-> RemoteRef("origin", ""),
                                head |-> GetRemoteTip(gitLink, ref, NoFail).val,
                                dry |-> TRUE, ref |-> ref],
                               "validate", node_id, <<>>, {}, <<>>)
        /\ UNCHANGED <<last, cli>>
        /\ WalkIdle

\* The push returns to the dispatcher and to main.
WalkReturn(err, nodes) ==
    /\ pushCall' = Returned(pushCall, err, nodes)
    /\ last' = Last("push", err, None)
    /\ cli' = AfterDispatch(cli, "push", TRUE, err, None, NoFail)

\* After the permission walk: lines 103-113, the early return for a push at
\* the tip, or the queue and the visited set with the pushed node in them.
WalkValidated ==
    IF pushCall.head # None /\ pushCall.head = pushCall.node
    THEN WalkReturn("", <<>>)
    ELSE /\ pushCall' = Walking(pushCall, "collect", None, <<pushCall.node>>,
                                {pushCall.node}, <<>>)
         /\ UNCHANGED <<last, cli>>

\* validate_contiguous_remotes lines 58-77: one turn of the loop.
ValidateStep ==
    /\ pushCall.called /\ pushCall.pc = "validate"
    /\ LET current_id == pushCall.current
           got == GetNode(storage, current_id)
       IN IF pushCall.head # None /\ pushCall.head = current_id THEN WalkValidated
          ELSE IF ~got.ok THEN WalkReturn("NodeNotFound", <<>>)
          ELSE IF pushCall.remote \notin got.val.remotes THEN WalkReturn("Contiguity", <<>>)
          ELSE IF got.val.parents = <<>> THEN WalkValidated
          ELSE /\ pushCall' = [pushCall EXCEPT !.current = got.val.parents[1]]
               /\ UNCHANGED <<last, cli>>
    /\ UNCHANGED ops
    /\ WalkIdle

\* compute_nodes_to_push lines 115-138: one turn of the while loop, or the
\* reversal and the return once the queue is empty.
CollectStep ==
    /\ pushCall.called /\ pushCall.pc = "collect"
    /\ IF pushCall.queue = <<>> THEN WalkReturn("", Reverse(pushCall.nodes))
       ELSE LET current_id == Head(pushCall.queue)
                got == GetNode(storage, current_id)
            IN IF pushCall.head # None /\ pushCall.head = current_id
               THEN /\ pushCall' = [pushCall EXCEPT !.queue = Tail(@)]
                    /\ UNCHANGED <<last, cli>>
               ELSE IF ~got.ok THEN WalkReturn("NodeNotFound", <<>>)
               ELSE LET e == EnqueueParents(got.val.parents, Tail(pushCall.queue),
                                            pushCall.visited)
                    IN /\ pushCall' = [pushCall EXCEPT !.queue = e.queue,
                                                       !.visited = e.visited,
                                                       !.nodes = Append(@, current_id)]
                       /\ UNCHANGED <<last, cli>>
    /\ UNCHANGED ops
    /\ WalkIdle

WalkNext ==
    \/ WalkStart
    \/ ValidateStep
    \/ CollectStep

\* The process runs on: a loop that can take a turn takes it.
WalkSpec == WalkInit /\ [][WalkNext]_vars /\ WF_vars(WalkNext)


\* ------------------------------------------------------------ the log
RECURSIVE LogTraverse(_, _, _, _)
\* dispatcher lines 108-123: the queue is emptied from the front; an id seen
\* before is skipped; the node is loaded and printed (its author is the same
\* for every node), and its parents are queued.
LogTraverse(st, queue, visited, output) ==
    IF queue = <<>> THEN [err |-> "", out |-> output]
    ELSE LET current_id == Head(queue)
         IN IF current_id \in visited
            THEN LogTraverse(st, Tail(queue), visited, output)
            ELSE IF ~GetNode(st, current_id).ok
            THEN [err |-> "NodeNotFound", out |-> <<>>]
            ELSE LET node == GetNode(st, current_id).val
                 IN LogTraverse(st, Tail(queue) \o node.parents,
                                visited \cup {current_id},
                                Append(output, [id |-> current_id, message |-> node.message]))

\* dispatcher lines 98-130: Command::Log.  `roots` is list_roots in the order
\* the HashMap yields them.  An empty `out` is printed as "History is empty."
LogOp(st, roots) == LogTraverse(st, roots, {}, <<>>)

\* The orders list_roots may answer in.
RootOrders(st) == {q \in SeqsUpTo(ListRoots(st), MaxNodes) : SeqToSet(q) = ListRoots(st)}

\* What a log command leaves behind: its result and the entries printed.
LastLog(op, err, out) == [op |-> op, err |-> err, id |-> None, out |-> out]

\* The graphs of up to MaxNodes nodes the add commands build.
LogInit ==
    /\ \E k \in 0..MaxNodes : \E g \in GraphsOf(k) :
        /\ storage = JsonNew(FileOf(Serialize(LinkedGraph(g)))).st
        /\ commits = CommitsOf(g)
        /\ held = HeldOf(g)
    /\ gitLink = "origin"
    /\ stores = {"origin"}
    /\ ops = 0
    /\ faults = 0
    /\ last = LastLog("new", "", <<>>)
    /\ txOpen = FALSE
    /\ txPre = [image |-> Image(storage), db |-> storage.db]
    /\ txWritten = EmptyMap
    /\ pushCall = NoPush
    /\ cli = NoCli
    /\ threads = NoThreads

\* gpp log
Log ==
    \E roots \in RootOrders(storage) :
        LET r == LogOp(storage, roots)
        IN /\ Command(NoFail)
           /\ last' = LastLog("log", r.err, r.out)
           /\ cli' = AfterDispatch(cli, "log", TRUE, r.err, None, NoFail)
           /\ UNCHANGED <<storage, commits, gitLink, stores, held>>
           /\ ClientIdle

LogNext == Log

LogSpec == LogInit /\ [][LogNext]_vars


\* ------------------------------------------- the context switch on its own
\* What a switch_context call leaves behind: its target and its result.
LastSwitch(op, err, ctx) == [op |-> op, err |-> err, id |-> None, ctx |-> ctx]

\* The working directory before a call of the public switch_context: any of
\* the stores .git_<ctx> exist, and .git is missing, a directory (filled or
\* empty) or a link to a store that exists.
SwitchInit ==
    /\ storage = JsonNew(FileOf(<<>>)).st
    /\ commits = <<>>
    /\ stores \in SUBSET RemoteNames
    /\ gitLink \in {"absent", "dir", "emptydir"} \cup stores
    /\ held = NoObjects
    /\ ops = 0
    /\ faults = 0
    /\ last = LastSwitch("init", "", "")
    /\ txOpen = FALSE
    /\ txPre = [image |-> Image(storage), db |-> storage.db]
    /\ txWritten = EmptyMap
    /\ pushCall = NoPush
    /\ cli = NoCli
    /\ threads = NoThreads

\* GitRepo::switch_context(remote_name), called as main.rs line 104 and
\* checkout_node call it.
Switch ==
    \E name \in RemoteNames,
       io \in Inject({"unlink", "spawn", "init", "rename_store", "symlink"}) :
        LET r == SwitchContext(gitLink, stores, name, io)
        IN /\ Command(io)
           /\ gitLink' = r.link
           /\ stores' = r.sts
           /\ last' = LastSwitch("switch_context", IF r.ok THEN "" ELSE "Backend", name)
           /\ UNCHANGED <<storage, commits, held, cli>>
           /\ ClientIdle

SwitchNext == Switch

SwitchSpec == SwitchInit /\ [][SwitchNext]_vars


\* ------------------------------------ switch_context, one system call at a
\* time.  GitRepo is Sync and switch_context takes &self and no lock, so two
\* threads of one process may be inside it together.
Threads == {1, 2}

\* Path::exists on .git_<ctx>: a store, or a link that leads to one.
StoreExists(ctx) == ctx \in stores \/ \E a \in threads.aliases : a[1] = ctx

\* The thread moves on to the line `pc`.
GoTo(t, pc) == threads' = [threads EXCEPT !.pc[t] = pc]
\* The thread returns Err.
Fail(t) == threads' = [threads EXCEPT !.pc[t] = "done", !.err[t] = "Backend"]

\* Two threads are about to call switch_context in a working directory gpp
\* has left: .git is missing or a link to a store that exists.
ConcurrentInit ==
    /\ storage = JsonNew(FileOf(<<>>)).st
    /\ commits = <<>>
    /\ stores \in SUBSET RemoteNames
    /\ gitLink \in {"absent"} \cup stores
    /\ held = NoObjects
    /\ ops = 0
    /\ faults = 0
    /\ last = LastSwitch("init", "", "")
    /\ txOpen = FALSE
    /\ txPre = [image |-> Image(storage), db |-> storage.db]
    /\ txWritten = EmptyMap
    /\ pushCall = NoPush
    /\ cli = NoCli
    /\ \E c \in [Threads -> RemoteNames] :
        threads = [pc |-> [t \in Threads |-> "exists"], ctx |-> c,
                   err |-> [t \in Threads |-> ""], aliases |-> {},
                   pre |-> [link |-> gitLink, sts |-> stores]]

ThreadIdle ==
    UNCHANGED <<storage, commits, held, ops, faults, last, txOpen, txPre, txWritten, pushCall,
                cli>>

\* line 52: git_link.exists() || symlink_metadata(&git_link).is_ok()
SwExists(t) ==
    /\ threads.pc[t] = "exists"
    /\ GoTo(t, IF gitLink = "absent" THEN "target" ELSE "remove")
    /\ UNCHANGED <<gitLink, stores>>
    /\ ThreadIdle

\* lines 53-57: remove_file, then remove_dir; both fail when .git is gone or
\* is a directory with a repository in it.
SwRemove(t) ==
    /\ threads.pc[t] = "remove"
    /\ IF gitLink \in {"absent", "dir"}
       THEN Fail(t) /\ UNCHANGED gitLink
       ELSE GoTo(t, "target") /\ gitLink' = "absent"
    /\ UNCHANGED stores
    /\ ThreadIdle

\* line 60: !target_path.exists().  (.git_temp_init is created nowhere.)
SwTarget(t) ==
    /\ threads.pc[t] = "target"
    /\ GoTo(t, IF StoreExists(threads.ctx[t]) THEN "symlink" ELSE "init")
    /\ UNCHANGED <<gitLink, stores>>
    /\ ThreadIdle

\* lines 66-69: git init creates the directory .git, or initialises again
\* the repository .git already is or leads to.
SwInit(t) ==
    /\ threads.pc[t] = "init"
    /\ GoTo(t, "rename")
    /\ gitLink' = (IF gitLink \in {"absent", "emptydir"} THEN "dir" ELSE gitLink)
    /\ UNCHANGED stores
    /\ ThreadIdle

\* line 71: fs::rename(.git, .git_<ctx>).  It fails when .git is gone, when
\* a directory is moved onto an existing path and when a link is moved onto
\* a directory; it moves a link as a link.
SwRename(t) ==
    LET ctx == threads.ctx[t]
    IN /\ threads.pc[t] = "rename"
       /\ IF gitLink = "absent"
          THEN Fail(t) /\ UNCHANGED <<gitLink, stores>>
          ELSE IF gitLink \in RemoteNames
          THEN IF ctx \in stores
               THEN Fail(t) /\ UNCHANGED <<gitLink, stores>>
               ELSE /\ threads' = [threads EXCEPT
                           !.pc[t] = "symlink",
                           !.aliases = {a \in @ : a[1] # ctx} \cup {<<ctx, gitLink>>}]
                    /\ gitLink' = "absent"
                    /\ UNCHANGED stores
          ELSE IF StoreExists(ctx)
               THEN Fail(t) /\ UNCHANGED <<gitLink, stores>>
               ELSE /\ GoTo(t, "symlink")
                    /\ gitLink' = "absent"
                    /\ stores' = stores \cup {ctx}
       /\ ThreadIdle

\* line 76: symlink(.git_<ctx>, .git) fails when .git exists.
SwSymlink(t) ==
    /\ threads.pc[t] = "symlink"
    /\ IF gitLink = "absent"
       THEN GoTo(t, "done") /\ gitLink' = threads.ctx[t]
       ELSE Fail(t) /\ UNCHANGED gitLink
    /\ UNCHANGED stores
    /\ ThreadIdle

ConcurrentNext ==
    \E t \in Threads :
        \/ SwExists(t)
        \/ SwRemove(t)
        \/ SwTarget(t)
        \/ SwInit(t)
        \/ SwRename(t)
        \/ SwSymlink(t)

ConcurrentSpec == ConcurrentInit /\ [][ConcurrentNext]_vars


\* ------------------------------------------------------------------ claims
RemoteNamesOf(remotes) == {r.name : r \in remotes}
GraphCommands == {"add_node", "add_remote_permission", "remove_remote_permission"}
AllFailures == {NoFail} \cup {FailAt(a) : a \in {"create_tree", "update_ref"} \cup CommitFailures}


RECURSIVE Ancestors(_)
\* The node and everything reachable from it along parent edges.
Ancestors(id) ==
    {id} \cup UNION {Ancestors(NodeOf(id).parents[i]) : i \in DOMAIN NodeOf(id).parents}

\* The nodes on a parent-path from `tip` back to `head`, head excluded; back
\* to the roots when there is no head or the head is no ancestor of the tip.
OnPathBack(tip, head) ==
    IF head # None /\ head \in Ancestors(tip)
    THEN {n \in Ancestors(tip) : head \in Ancestors(n) /\ n # head}
    ELSE Ancestors(tip)

\* C1: when push(N, R) succeeds, every node on any parent-path from N back
\* to the remote head (or to the roots) has R among its remotes.
C1_PushContiguity ==
    (pushCall.called /\ pushCall.err = "")
        => \A n \in OnPathBack(pushCall.node, pushCall.head) :
                pushCall.remote \in NodeOf(n).remotes

\* C2: every parent of a stored node is stored and lists the node among its
\* children.
C2_ChildrenBackRef ==
    \A n \in Stored :
        \A i \in DOMAIN NodeOf(n).parents :
            LET p == NodeOf(n).parents[i]
            IN p \in Stored /\ n \in NodeOf(p).children

\* add_node called with parents that are stored and not empty, and with
\* requested remotes of which one is no remote name of any parent.
SubsetViolating(parents, req) ==
    /\ parents # <<>>
    /\ \A i \in DOMAIN parents : parents[i] \in Stored
    /\ req.some
    /\ ~(req.names \subseteq ParentRemoteNames(storage, parents))

\* C3: add_node with non-empty parents and a requested remote that no parent
\* has returns a validation error and leaves the storage, in memory and on
\* disk, as it was: every such call does, and so did the call that just ran.
C3_SubsetViolationRejected ==
    /\ [](\A parents \in ParentLists(storage), req \in Requests :
            SubsetViolating(parents, req) =>
                \A allowed \in AllowedChoices(storage, parents, NoFail),
                   tick \in BOOLEAN, io \in AllFailures :
                    LET r == AddNodeOp(storage, commits, held, gitLink,
                                       ClockReading(commits, tick), parents, req,
                                       "m", allowed, io)
                    IN r.err = "Validation" /\ r.st = storage)
    /\ [][(last'.op = "add_node" /\ last'.err = "Validation") => storage' = storage]_vars

\* C3 witness: a call with stored parents was refused with a validation error.
C3_Witness ==
    /\ last.op = "add_node"
    /\ last.err = "Validation"
    /\ Stored # {}

\* C4: a successful add_node with non-empty parents stores a node whose
\* remote names are among the remote names its parents had when it was called.
C4_PermissionSubsetAtCreation ==
    [][(last'.op = "add_node" /\ last'.err = "" /\ storage'.nodes[last'.id].parents # <<>>)
        => RemoteNamesOf(storage'.nodes[last'.id].remotes)
             \subseteq ParentRemoteNames(storage, storage'.nodes[last'.id].parents)]_vars

\* C4 witness: a node with a parent was created and holds a remote.
C4_Witness ==
    /\ last.op = "add_node"
    /\ last.err = ""
    /\ NodeOf(last.id).parents # <<>>
    /\ NodeOf(last.id).remotes # {}

\* C5: the remotes of every stored node that has parents are among the
\* remotes of its parents.
C5_RemoteInheritance ==
    \A n \in Stored :
        NodeOf(n).parents # <<>> =>
            NodeOf(n).remotes \subseteq
                UNION {NodeOf(NodeOf(n).parents[i]).remotes : i \in DOMAIN NodeOf(n).parents}

\* C6: when a storage step of add_node, add_remote_permission or
\* remove_remote_permission fails, the in-memory image is afterwards what it
\* was before the call.
C6_RollbackOnFailure ==
    [][(last'.op \in GraphCommands /\ last'.err \in {"Io", "Serde"})
        => storage'.nodes = storage.nodes]_vars

\* C11: after a successful switch_context(ctx) the path .git is a link to the
\* store of ctx and that store exists, whatever .git and the stores were
\* before.
C11_SwitchSuccess ==
    [][(last'.op = "switch_context" /\ last'.err = "")
        => /\ gitLink' = last'.ctx
           /\ last'.ctx \in stores']_vars

\* A switch_context has succeeded, and .git leads to the store of its target.
C11_Witness ==
    /\ last.op = "switch_context" /\ last.err = ""
    /\ gitLink = last.ctx
    /\ last.ctx \in stores

\* C12: a switch_context that returns an error leaves .git a link to the
\* store it led to before the call.
C12_FailedSwitchKeepsBinding ==
    [][(last'.op = "switch_context" /\ last'.err # "" /\ gitLink \in stores)
        => gitLink' = gitLink]_vars

\* C13: when .git is a real directory, empty or not, switch_context returns an
\* error and leaves the directory and the stores as they were.  (The code's
\* errors are strings without kinds: any error counts.)
C13_UnsafeContext ==
    [][(last'.op = "switch_context" /\ gitLink \in {"dir", "emptydir"})
        => /\ last'.err # ""
           /\ gitLink' = gitLink
           /\ stores' = stores]_vars

\* Both threads have returned.
AllReturned == \A t \in Threads : threads.pc[t] = "done"

\* The two calls one after the other, from the working directory the threads
\* started from.
OneAfterTheOther(first, second) ==
    LET a == SwitchContext(threads.pre.link, threads.pre.sts, threads.ctx[first], NoFail)
    IN SwitchContext(a.link, a.sts, threads.ctx[second], NoFail)

\* C15: when two interleaved switch_context calls have returned, neither has
\* failed, every store is a real store, and .git and the stores are what the
\* two calls leave when run one after the other in some order.
C15_SwitchesSerialize ==
    AllReturned =>
        /\ \A t \in Threads : threads.err[t] = ""
        /\ threads.aliases = {}
        /\ \E first, second \in Threads :
            /\ first # second
            /\ gitLink = OneAfterTheOther(first, second).link
            /\ stores = OneAfterTheOther(first, second).sts

\* C14: between operations the path .git exists and leads to one store that
\* exists.
C14_OneActiveStore == gitLink \in stores

\* C16: checkout of a stored node, with no failure of the environment,
\* succeeds and binds the store of a context one of the node's remotes
\* names ("origin" when it has none), where the node's tree is found.
C16_CheckoutRoundTrip ==
    [][(last'.op = "checkout" /\ last'.id # None /\ faults' = faults)
        => /\ last'.err = ""
           /\ gitLink' \in CheckoutContexts(NodeOf(last'.id))
           /\ gitLink' \in stores'
           /\ gitLink' \in held.trees]_vars

\* C17: two checkouts of the same stored node from the same state bind the
\* same context.
C17_DeterministicContext ==
    \A n \in Stored :
        \A c1, c2 \in CheckoutContexts(NodeOf(n)) :
            CheckoutNode(gitLink, stores, held, c1, NoFail).link
                = CheckoutNode(gitLink, stores, held, c2, NoFail).link

\* The remotes of all the parents, as stored.
ParentRemotes(st, parents) ==
    UNION {st.nodes[parents[i]].remotes : i \in DOMAIN parents}

\* Two remotes of the parents have one name and different urls.
Conflicting(st, parents) ==
    \E r1, r2 \in ParentRemotes(st, parents) : r1.name = r2.name /\ r1.url # r2.url

\* C18: add_node does not succeed when its parents carry two remotes of one
\* name and different urls.
C18_RemoteConflict ==
    [][(last'.op = "add_node" /\ last'.err = "")
        => ~Conflicting(storage, storage'.nodes[last'.id].parents)]_vars

\* C19: no stored node holds two remotes of one name.
C19_RemoteNameUnique ==
    \A n \in Stored :
        \A r1, r2 \in NodeOf(n).remotes : r1.name = r2.name => r1 = r2

\* C20: a successful add_node with stored, non-empty parents creates a node
\* whose remotes are all the remotes of all its parents when no remotes are
\* requested, and the parents' remotes of the requested names otherwise.
C20_DefaultInheritance ==
    \A parents \in ParentLists(storage) :
        (parents # <<>> /\ \A i \in DOMAIN parents : parents[i] \in Stored) =>
            \A req \in Requests, tick \in BOOLEAN,
               allowed \in AllowedChoices(storage, parents, NoFail) :
                LET r == AddNodeOp(storage, commits, held, gitLink,
                                   ClockReading(commits, tick), parents, req,
                                   "m", allowed, NoFail)
                IN r.err = "" =>
                    r.st.nodes[r.id].remotes =
                        IF req.some
                        THEN {x \in ParentRemotes(storage, parents) : x.name \in req.names}
                        ELSE ParentRemotes(storage, parents)

\* C21: add_node with no parents never returns a validation error, and when
\* it succeeds the node's remotes are origin with the empty url when no remotes
\* are requested, and one remote with the empty url per requested name
\* otherwise: every such call does, and so did the call that just ran.
C21_RootPermissions ==
    /\ [](\A req \in Requests, tick \in BOOLEAN, io \in AllFailures,
             allowed \in AllowedChoices(storage, <<>>, NoFail) :
            LET r == AddNodeOp(storage, commits, held, gitLink,
                               ClockReading(commits, tick), <<>>, req, "m", allowed, io)
            IN /\ r.err # "Validation"
               /\ r.err = "" =>
                    r.st.nodes[r.id].remotes =
                        IF req.some THEN {RemoteRef(n, "") : n \in req.names}
                        ELSE {RemoteRef("origin", "")})
    /\ [][(last'.op = "add_node" /\ last'.err = "" /\ storage'.nodes[last'.id].parents = <<>>)
            => \E req \in Requests :
                storage'.nodes[last'.id].remotes =
                    IF req.some THEN {RemoteRef(n, "") : n \in req.names}
                    ELSE {RemoteRef("origin", "")}]_vars

\* C21 witness: a root was created with a requested remote other than origin.
C21_Witness ==
    /\ last.op = "add_node"
    /\ last.err = ""
    /\ NodeOf(last.id).parents = <<>>
    /\ NodeOf(last.id).remotes = {RemoteRef("secret", "")}

\* C22: when the environment fails no call, a step keeps every stored node
\* stored with its id, parents, message and creation time, and never takes a
\* child away; only add_node adds a child, only add_remote_permission and
\* remove_remote_permission change remotes, and of one node at a time.  (The
\* author and the payload are the same for every node of the model.)
C22_NodesAppendOnly ==
    [][faults' = 0 =>
        /\ \A n \in Stored :
            /\ n \in DOMAIN storage'.nodes
            /\ storage'.nodes[n].id = NodeOf(n).id
            /\ storage'.nodes[n].parents = NodeOf(n).parents
            /\ storage'.nodes[n].message = NodeOf(n).message
            /\ storage'.nodes[n].created_at = NodeOf(n).created_at
            /\ NodeOf(n).children \subseteq storage'.nodes[n].children
            /\ storage'.nodes[n].children # NodeOf(n).children => last'.op = "add_node"
            /\ storage'.nodes[n].remotes # NodeOf(n).remotes
                => last'.op \in {"add_remote_permission", "remove_remote_permission"}
        /\ \A n1, n2 \in Stored :
            (/\ storage'.nodes[n1].remotes # NodeOf(n1).remotes
             /\ storage'.nodes[n2].remotes # NodeOf(n2).remotes) => n1 = n2]_vars

RECURSIVE ParentsWithin(_, _)
\* The stored nodes reached from the set S in at most k steps along parent
\* edges, S included.
ParentsWithin(S, k) ==
    IF k = 0 THEN S
    ELSE ParentsWithin(S \cup UNION {SeqToSet(NodeOf(n).parents) \cap Stored : n \in S}, k - 1)

\* The transitive parents of a stored node.
TransitiveParents(n) == ParentsWithin(SeqToSet(NodeOf(n).parents) \cap Stored, MaxNodes)

\* C23: no stored node is its own transitive parent.
C23_Acyclic == \A n \in Stored : n \notin TransitiveParents(n)

\* C23 witness: add_node has created a node on a node that has a parent.
C23_Witness ==
    /\ last.op = "add_node"
    /\ last.err = ""
    /\ \E p \in TransitiveParents(last.id) : NodeOf(p).parents # <<>>

\* C24: a push of the node read as the remote's tip returns false and does
\* not invoke push_update_ref; a push that returns false is such a push; a
\* push of another node that passes the permission check has a walk set that
\* holds the node, and returns true unless the backend fails.
C24_PushAtTipIsNoOp ==
    pushCall.called =>
        /\ pushCall.head = pushCall.node
            => (pushCall.err = "" /\ ~pushCall.did /\ ~pushCall.update)
        /\ (pushCall.err = "" /\ ~pushCall.did) => pushCall.head = pushCall.node
        /\ (pushCall.head # pushCall.node /\ pushCall.err \in {"", "Backend"})
            => /\ pushCall.node \in SeqToSet(pushCall.nodes)
               /\ pushCall.err = "" => pushCall.did

\* C24 witness: a node was pushed that the remote's tip ref names, and the
\* node does not permit the remote.
C24_Witness ==
    /\ pushCall.called
    /\ pushCall.head = pushCall.node
    /\ pushCall.remote \notin NodeOf(pushCall.node).remotes
    /\ ~pushCall.did

\* C25: a dry-run push does not invoke push_update_ref, leaves .git, the
\* stores, the objects and the graph storage as they were, and when it
\* succeeds it returns true exactly when the same push without dry_run has
\* nodes to send.
C25_DryRunDoesNotMutate ==
    [][(pushCall'.called /\ ~pushCall.called /\ pushCall'.dry) =>
        /\ ~pushCall'.update
        /\ UNCHANGED <<storage, commits, gitLink, stores, held>>
        /\ pushCall'.err = "" =>
            (pushCall'.did <=>
                PushOp(storage, pushCall'.node, pushCall'.remote, pushCall'.head,
                       FALSE, NoFail).nodes # <<>>)]_vars

\* C25 witness: a dry-run push had nodes to send and returned true.
C25_Witness ==
    /\ pushCall.called
    /\ pushCall.dry
    /\ pushCall.did
    /\ pushCall.nodes # <<>>
    /\ ~pushCall.update

\* The nodes the walk of a push visits: from the node along all parent edges,
\* stopping at the remote's tip.
WalkOf(node_id, remote_tip) ==
    SeqToSet(Traverse(storage, remote_tip, <<node_id>>, {node_id}, <<>>).nodes)

\* C26: when a node the walk of a push visits has no remote equal to the
\* pushed one in name and url, the push fails with a contiguity error and
\* push_update_ref is not invoked.
C26_PermissionIdentity ==
    (/\ pushCall.called
     /\ \E n \in WalkOf(pushCall.node, pushCall.head) :
            pushCall.remote \notin NodeOf(n).remotes)
        => (pushCall.err = "Contiguity" /\ ~pushCall.update)

\* C27: log succeeds and prints one entry, with its id and message, for every
\* stored node, each once; it prints nothing ("History is empty.") only when
\* no node is stored.
C27_LogComplete ==
    last.op = "log" =>
        /\ last.err = ""
        /\ \A n \in Stored :
            /\ \E i \in DOMAIN last.out :
                last.out[i] = [id |-> n, message |-> NodeOf(n).message]
            /\ \A i, j \in DOMAIN last.out :
                (last.out[i].id = n /\ last.out[j].id = n) => i = j
        /\ last.out = <<>> => Stored = {}

\* The commands of the command line that the graph and the backend serve.
CliCommands == GraphCommands \cup {"checkout"}

\* C28: a command whose dispatch returned an error ends with an exit code
\* other than 0, and a command ends with another code than 0 only when its
\* dispatch returned an error or the environment failed a call.
C28_ExitCodes ==
    last.op \in CliCommands =>
        /\ last.err # "" => cli.exit # 0
        /\ cli.exit # 0 => (last.err # "" \/ faults > 0)

\* C29: HEAD holds the id of the last add or checkout that succeeded; every
\* other command, and every command that fails, leaves HEAD as it was; and a
\* successful add that names no parents creates a node whose only parent is
\* the id HEAD held, or a root when HEAD held none.
C29_HeadTracking ==
    [][last'.op \in CliCommands =>
        /\ IF last'.op \in {"add_node", "checkout"} /\ last'.err = "" /\ cli'.exit = 0
           THEN cli'.head = last'.id
           ELSE cli'.head = cli.head
        /\ (last'.op = "add_node" /\ last'.err = "" /\ ~cli'.given)
            => storage'.nodes[last'.id].parents = DefaultParents(cli.head)]_vars

\* C29 witness: an add that named no parents has created a child of the node
\* HEAD held, which was not the newest node, and HEAD holds the child.
C29_Witness ==
    /\ last.op = "add_node"
    /\ last.err = ""
    /\ ~cli.given
    /\ cli.head = last.id
    /\ \E p \in Stored :
        /\ NodeOf(last.id).parents = <<p>>
        /\ \E n \in Stored : n # last.id /\ n > p

\* C30: a successful push that is no dry run and has nodes to send leaves the
\* store of the remote it pushed to in existence, creating it when it was
\* missing.
C30_LazyContextOnPush ==
    [][(/\ pushCall'.called /\ ~pushCall.called
        /\ ~pushCall'.dry /\ pushCall'.err = "" /\ pushCall'.did)
        => pushCall'.remote.name \in stores']_vars

\* The stored nodes with the remotes of the name taken from one of them.
WithoutName(nodes, id, name) ==
    [nodes EXCEPT ![id].remotes = {x \in @ : x.name # name}]

\* C31: a successful remove_remote_permission(node, name) takes from the node
\* every remote of that name, whatever its url, and leaves the node's other
\* remotes and fields and all other nodes as they were; and
\* add_remote_permission(node, r) followed by remove_remote_permission(node,
\* r.name) gives back the stored nodes when the node had no remote named
\* r.name.  Every such call does, and so did the removal that just ran.
C31_RemoveByName ==
    /\ [](\A id \in Stored, name \in RemoteNames :
            LET r == RemoveRemotePermissionOp(storage, id, name, NoFail)
            IN r.ok /\ r.st.nodes = WithoutName(storage.nodes, id, name))
    /\ [](\A id \in Stored, remote \in ChrmRemotes :
            (remote.name \notin RemoteNamesOf(NodeOf(id).remotes)) =>
                LET a == AddRemotePermissionOp(storage, id, remote, NoFail)
                    r == RemoveRemotePermissionOp(a.st, id, remote.name, NoFail)
                IN /\ a.ok /\ r.ok
                   /\ remote \in a.st.nodes[id].remotes
                   /\ r.st.nodes = storage.nodes)
    /\ [][(last'.op = "remove_remote_permission" /\ last'.err = "")
            => storage'.nodes = WithoutName(storage.nodes, last'.id, last'.name)]_vars

\* C31 witness: a removal by the name origin has succeeded on a node that
\* keeps its remote secret.
C31_Witness ==
    /\ last.op = "remove_remote_permission" /\ last.err = ""
    /\ last.name = "origin"
    /\ last.id \in Stored
    /\ NodeOf(last.id).remotes = {RemoteRef("secret", "")}

\* C32: a push whose read of the remote's tip ref fails returns an error, and
\* a push reads no tip only when the store holds no such ref.
C32_ReadRefErrors ==
    pushCall.called =>
        /\ pushCall.at = "rev_parse" => pushCall.err # ""
        /\ pushCall.head = None => pushCall.ref = None

\* How many entries of the graph file carry the id.
EntriesOf(db, id) == Cardinality({i \in DOMAIN db.entries : db.entries[i].key = id})

\* C33: persist_node(N) after a persist_node(N) that succeeded succeeds and
\* leaves the image as the first call left it; the image holds N under N.id,
\* and a graph file that persist_node wrote holds one entry for N.id.  Every
\* such pair of calls does, and so did a persist_node that just repeated the
\* one before it.
C33_IdempotentUpsert ==
    /\ [](\A node \in StorageNodes :
            LET once == PersistNode(storage, node, NoFail)
                twice == PersistNode(once.st, node, NoFail)
            IN once.ok =>
                /\ twice.ok
                /\ Image(twice.st) = Image(once.st)
                /\ Image(once.st).readable
                /\ node.id \in DOMAIN Image(once.st).map
                /\ Image(once.st).map[node.id] = node
                /\ storage.impl = "file" => EntriesOf(twice.st.db, node.id) = 1)
    /\ [][(/\ last.op = "persist_node" /\ last.err = ""
           /\ last'.op = "persist_node" /\ last'.err = ""
           /\ last'.id = last.id
           /\ txWritten'[last'.id] = txWritten[last.id])
            => Image(storage') = Image(storage)]_vars

\* C33 witness: a persist_node has succeeded on a FileStorage with a node the
\* image already held as it is.
C33_Witness ==
    /\ last.op = "persist_node" /\ last.err = ""
    /\ storage.impl = "file"
    /\ last.id \in DOMAIN txPre.image.map
    /\ txPre.image.map[last.id] = txWritten[last.id]
    /\ Image(storage).map[last.id] = txWritten[last.id]

\* The pushed node and its ancestors, without the remote head and its
\* ancestors.
NotYetOnRemote(tip, head) ==
    Ancestors(tip) \ (IF head = None THEN {} ELSE Ancestors(head))

\* C34: the nodes a push has computed are the pushed node and its ancestors
\* that are neither the remote head nor an ancestor of it, each once.
C34_WalkSet ==
    (pushCall.called /\ pushCall.err \in {"", "Backend"} /\ pushCall.head # pushCall.node) =>
        /\ SeqToSet(pushCall.nodes) = NotYetOnRemote(pushCall.node, pushCall.head)
        /\ \A i, j \in DOMAIN pushCall.nodes :
                pushCall.nodes[i] = pushCall.nodes[j] => i = j

\* C35: in the nodes a push has computed every node comes after each of its
\* parents that is among them, and the pushed node is the last.
C35_PushOrder ==
    (pushCall.called /\ pushCall.nodes # <<>>) =>
        /\ pushCall.nodes[Len(pushCall.nodes)] = pushCall.node
        /\ \A i, j \in DOMAIN pushCall.nodes :
                pushCall.nodes[j] \in SeqToSet(NodeOf(pushCall.nodes[i]).parents) => j < i

\* C36: a push that has started returns, with success or with an error,
\* whatever graph is stored.
C36_PushTerminates ==
    pushCall.called ~> (pushCall.called /\ pushCall.pc = "done")

\* The failures of create_tree and create_commit.
BackendFailures == {FailAt(a) : a \in {"create_tree", "commit_tree", "update_ref"}}

\* C37: an add_node whose create_tree or create_commit fails returns the
\* error and leaves the graph storage as it was; an add_node that changes the
\* graph storage has written the tree and a commit object before; and one that
\* writes the graph file has the new node in the image, each of its parents
\* listing it as a child (begin_tx, persist, children, then commit_tx).  Every
\* call with a backend failure does the first, and so did the call that just
\* ran.
C37_AddNodeOrdering ==
    /\ [](\A parents \in ParentLists(storage), req \in Requests :
            \A allowed \in AllowedChoices(storage, parents, NoFail),
               tick \in BOOLEAN, io \in BackendFailures :
                LET r == AddNodeOp(storage, commits, held, gitLink,
                                   ClockReading(commits, tick), parents, req,
                                   "m", allowed, io)
                IN r.err # "" /\ r.id = None /\ r.st = storage)
    /\ [][last'.op = "add_node" =>
            /\ last'.err = "Backend" => storage' = storage
            /\ storage' # storage =>
                /\ gitLink \in held'.trees
                /\ \E n \in DOMAIN storage'.nodes : <<gitLink, n>> \in held'.commits
            /\ storage'.db # storage.db =>
                \E n \in DOMAIN storage'.nodes :
                    /\ <<gitLink, n>> \in held'.commits
                    /\ \A i \in DOMAIN storage'.nodes[n].parents :
                        n \in storage'.nodes[storage'.nodes[n].parents[i]].children]_vars

\* C37 witness: an add_node on a stored graph has failed in the backend after
\* the commit object was written, and no stored node has the commit's id.
C37_Witness ==
    /\ last.op = "add_node"
    /\ last.err = "Backend"
    /\ Stored # {}
    /\ \E c \in held.commits : c[2] \notin Stored

ChrmCommands == {"add_remote_permission", "remove_remote_permission"}

\* C38: chrm without a node id, chrm that adds a remote without a url, and
\* chrm on a node id that is not stored each return an error, the last one
\* that the node was not found, and leave the graph storage, in memory and on
\* disk, as it was.
C38_ChrmErrors ==
    [][last'.op \in ChrmCommands =>
        /\ last'.id = None
            => (last'.err = "NodeIdRequired" /\ storage' = storage)
        /\ (last'.id # None /\ last'.url = NoUrl)
            => (last'.err = "UrlRequired" /\ storage' = storage)
        /\ (last'.id # None /\ last'.url # NoUrl /\ last'.id \notin Stored)
            => (last'.err = "NodeNotFound" /\ storage' = storage)]_vars

\* C38 witness: a chrm on a stored node that names no url has been refused.
C38_Witness ==
    /\ last.op = "add_remote_permission"
    /\ last.err = "UrlRequired"
    /\ last.id \in Stored

\* C39: an add_node that fails because a parent is not stored or because a
\* requested remote is not permitted by the parents leaves the object stores
\* (trees and commits) and the graph storage as they were.  Every such call
\* does, and so did the call that just ran.
C39_ValidationBeforeEffects ==
    /\ [](\A parents \in ParentLists(storage), req \in Requests :
            \A allowed \in AllowedChoices(storage, parents, NoFail),
               tick \in BOOLEAN, io \in {NoFail, FailAt("create_tree")} :
                LET r == AddNodeOp(storage, commits, held, gitLink,
                                   ClockReading(commits, tick), parents, req,
                                   "m", allowed, io)
                IN /\ (\E i \in DOMAIN parents : parents[i] \notin Stored)
                        => r.err = "NodeNotFound"
                   /\ r.err \in {"NodeNotFound", "Validation"}
                        => (r.objs = commits /\ r.held = held /\ r.st = storage))
    /\ [][(last'.op = "add_node" /\ last'.err \in {"NodeNotFound", "Validation"})
            => UNCHANGED <<commits, held, storage, gitLink, stores>>]_vars

\* C39 witness: an add_node naming a parent that is not stored has been
\* refused while the graph holds nodes and no store holds more commits than
\* the graph has nodes.
C39_Witness ==
    /\ last.op = "add_node"
    /\ last.err = "NodeNotFound"
    /\ Stored # {}
    /\ \A c \in held.commits : c[2] \in Stored

\* C40: in a graph built by add_node alone, with no failure of the
\* environment, the permission walk of a push of any stored node to any of
\* its remotes, with no remote head, succeeds.
C40_AddOnlyPushable ==
    faults = 0 =>
        \A n \in Stored : \A r \in NodeOf(n).remotes :
            ValidateContiguousRemotes(storage, n, r, None) = ""

\* C7: after a commit_tx, failed or not, the graph file is either the
\* complete file of before the transaction or the complete new image.
C7_AtomicCommit ==
    [][last'.op = "commit_tx"
        => storage'.db \in {txPre.db, FileOf(Serialize(Image(storage).map))}]_vars

\* C8: after a commit_tx that succeeds, the graph file holds every node
\* persisted in the transaction as it was persisted, and a storage opened on
\* the file holds the image the committing storage shows.
C8_CommitDurable ==
    [][(last'.op = "commit_tx" /\ last'.err = "")
        => /\ DiskImage(storage'.db).readable
           /\ \A id \in DOMAIN txWritten :
                /\ id \in DOMAIN DiskImage(storage'.db).map
                /\ DiskImage(storage'.db).map[id] = txWritten[id]
           /\ DiskImage(storage'.db) = Image(storage')]_vars

\* C9: persist_node between begin_tx and commit_tx leaves the graph file
\* as it is.
C9_PersistKeepsDisk ==
    [][(txOpen /\ last'.op = "persist_node") => storage'.db = storage.db]_vars

\* C10: after a rollback_tx that succeeds, load_node answers for every id
\* what it answered before begin_tx.
C10_RollbackRestores ==
    [][(last'.op = "rollback_tx" /\ last'.err = "") => Image(storage') = txPre.image]_vars

====
